---- MODULE Spec2Model ----
(***************************************************************************)
(* Bank statement parser: the Maybank line recognizers (maybank.py), and   *)
(* the batch pipeline, year inference and monthly statistics (app.py).     *)
(*                                                                         *)
(* Text is modelled by what the regular expressions see of it:             *)
(*   - an amount is the sequence of its characters ("5,000.00");           *)
(*   - a month abbreviation is the sequence of its three letters;          *)
(*   - a date string is its separator and its runs of digits, each run a   *)
(*     pair <<value, number of digits>>: "2025-06-01" is                   *)
(*     [sep |-> "-", parts |-> << <<2025,4>>, <<6,2>>, <<1,2>> >>];        *)
(*   - a float amount is its value in cents.                               *)
(***************************************************************************)
EXTENDS Integers, Sequences, FiniteSets, TLC

VARIABLES
    pc,             \* position of the script (app.py top to bottom)
    bank_hint,      \* app.py:30-38, "none" is None (Auto-detect)
    files_left,     \* uploaded_files not yet iterated
    pages_left,     \* pages the batch may still hold
    pdf_pages,      \* len(pdf.pages) of the open file
    lines_left,     \* text lines the batch may still hold
    file_num,       \* position of uploaded_file in uploaded_files, its name
    page_num,       \* enumerate(pdf.pages, start=1)
    text,           \* page.extract_text() of the current page
    called,         \* history: recognizers invoked for the current page
    tx,             \* the current page's result list
    all_tx,         \* app.py:130
    errors,         \* st.error calls: the file, and all_tx as it then was
    header_seen,    \* history: year declared by an earlier page of the file
    origin,         \* history: for each record of all_tx, where it is from
    visited,        \* history: files the loop body was entered for
    raw_tx,         \* history: all_tx as passed to infer_and_fix_years
    now_year,       \* datetime.now().year read by infer_and_fix_years
    monthly_stats   \* app.py:234-249, a sequence of rows

vars == << pc, bank_hint, files_left, pages_left, pdf_pages, lines_left,
           file_num, page_num, text, called, tx, all_tx, errors, header_seen, origin,
           visited, raw_tx, now_year, monthly_stats >>

(***************************************************************************)
(* Bounds of the model.                                                    *)
(***************************************************************************)
MaxFiles == 3
MaxPages == 2
MaxLines == 2
MaxPageLines == 3
MaxTx == 4
MaxRows == 3

(***************************************************************************)
(* Characters, amounts, month names.                                       *)
(***************************************************************************)
DigitValue(c) ==
    CASE c = "0" -> 0 [] c = "1" -> 1 [] c = "2" -> 2 [] c = "3" -> 3
      [] c = "4" -> 4 [] c = "5" -> 5 [] c = "6" -> 6 [] c = "7" -> 7
      [] c = "8" -> 8 [] c = "9" -> 9

\* str.replace(",", "")
RECURSIVE StripCommas(_)
StripCommas(s) ==
    IF s = << >> THEN << >>
    ELSE IF Head(s) = "," THEN StripCommas(Tail(s))
    ELSE << Head(s) >> \o StripCommas(Tail(s))

\* int() of a run of digits; the empty run (".00") counts 0 as float() does
RECURSIVE DigitsValue(_)
DigitsValue(s) ==
    IF s = << >> THEN 0
    ELSE 10 * DigitsValue(SubSeq(s, 1, Len(s) - 1)) + DigitValue(s[Len(s)])

\* float(amount_raw.replace(",", "")) of a match of [0-9,]+\.\d{2}, in cents
ParseAmount(amount_raw) ==
    LET s == StripCommas(amount_raw)
        n == Len(s)
    IN  100 * DigitsValue(SubSeq(s, 1, n - 3)) + DigitsValue(SubSeq(s, n - 1, n))

ToUpper(c) ==
    CASE c = "a" -> "A" [] c = "d" -> "D" [] c = "j" -> "J" [] c = "x" -> "X"
      [] c = "p" -> "P" [] c = "r" -> "R" [] c = "e" -> "E" [] c = "c" -> "C"
      [] c = "n" -> "N" [] c = "y" -> "Y" [] c = "z" -> "Z"
      [] OTHER -> c

ToLower(c) ==
    CASE c = "A" -> "a" [] c = "D" -> "d" [] c = "J" -> "j" [] c = "X" -> "x"
      [] c = "P" -> "p" [] c = "R" -> "r" [] c = "E" -> "e" [] c = "C" -> "c"
      [] c = "N" -> "n" [] c = "Y" -> "y" [] c = "Z" -> "z"
      [] OTHER -> c

\* str.title() of a three-letter word
Title(w) == << ToUpper(w[1]), ToLower(w[2]), ToLower(w[3]) >>

MONTH_MAP ==
    { << <<"J","a","n">>, 1 >>,  << <<"F","e","b">>, 2 >>,
      << <<"M","a","r">>, 3 >>,  << <<"A","p","r">>, 4 >>,
      << <<"M","a","y">>, 5 >>,  << <<"J","u","n">>, 6 >>,
      << <<"J","u","l">>, 7 >>,  << <<"A","u","g">>, 8 >>,
      << <<"S","e","p">>, 9 >>,  << <<"O","c","t">>, 10 >>,
      << <<"N","o","v">>, 11 >>, << <<"D","e","c">>, 12 >> }

KnownMonth(abbr) == \E e \in MONTH_MAP : e[1] = Title(abbr)

\* MONTH_MAP.get(mon_abbr.title(), "01")
MonthOfAbbr(abbr) ==
    IF KnownMonth(abbr)
    THEN (CHOOSE e \in MONTH_MAP : e[1] = Title(abbr))[2]
    ELSE 1

(***************************************************************************)
(* Date strings.                                                           *)
(***************************************************************************)
\* f"{year}-{month}-{day}": a four-digit year, two-digit month and day
IsoDate(year, month, day) ==
    [sep |-> "-", parts |-> << <<year, 4>>, <<month, 2>>, <<day, 2>> >>]

\* "dd/mm/YYYY", "dd/mm/yy", "dd/mm" as a recognizer may print them
DmyDate(day, month, year) ==
    [sep |-> "/", parts |-> << <<day, 2>>, <<month, 2>>, <<year, 4>> >>]
DmDate(day, month) ==
    [sep |-> "/", parts |-> << <<day, 2>>, <<month, 2>> >>]

IsLeap(y) == (y % 4 = 0 /\ y % 100 # 0) \/ y % 400 = 0

DaysIn(m, y) ==
    IF m = 2 THEN (IF IsLeap(y) THEN 29 ELSE 28)
    ELSE IF m \in {4, 6, 9, 11} THEN 30 ELSE 31

(***************************************************************************)
(* datetime.strptime on a date string.  A directive takes one run of       *)
(* digits: %d and %m a run of one or two digits in range, %Y a run of      *)
(* four, %y a run of two (00-68 are 20yy, 69-99 are 19yy); the separators  *)
(* and the number of runs must be the format's; without a year directive   *)
(* the year is 1900; the day must exist in that month of that year.        *)
(***************************************************************************)
FORMATS ==
    << [sep |-> "/", fields |-> <<"d", "m", "Y">>],
       [sep |-> "-", fields |-> <<"d", "m", "Y">>],
       [sep |-> "/", fields |-> <<"d", "m", "y">>],
       [sep |-> "-", fields |-> <<"d", "m", "y">>],
       [sep |-> "/", fields |-> <<"d", "m">>],
       [sep |-> "-", fields |-> <<"d", "m">>] >>

NoYearFormats == {5, 6}

FieldOk(part, f) ==
    CASE f = "d" -> part[2] \in {1, 2} /\ part[1] \in 1..31
      [] f = "m" -> part[2] \in {1, 2} /\ part[1] \in 1..12
      [] f = "Y" -> part[2] = 4 /\ part[1] >= 1
      [] f = "y" -> part[2] = 2

Strptime(date, fmt) ==
    LET n == Len(fmt.fields)
        shape == /\ Len(date.parts) = n
                 /\ date.sep = fmt.sep
                 /\ \A i \in 1..n : FieldOk(date.parts[i], fmt.fields[i])
        y == IF n < 3 THEN 1900
             ELSE IF fmt.fields[3] = "Y" THEN date.parts[3][1]
             ELSE IF date.parts[3][1] <= 68 THEN 2000 + date.parts[3][1]
             ELSE 1900 + date.parts[3][1]
    IN  IF shape /\ date.parts[1][1] <= DaysIn(date.parts[2][1], y)
        THEN [ok |-> TRUE, year |-> y, month |-> date.parts[2][1],
              day |-> date.parts[1][1]]
        ELSE [ok |-> FALSE, year |-> 0, month |-> 0, day |-> 0]

\* the first format of the list that parses the string, 0 when none does
FirstFormat(date) ==
    IF \E i \in 1..Len(FORMATS) : Strptime(date, FORMATS[i]).ok
    THEN CHOOSE i \in 1..Len(FORMATS) :
            /\ Strptime(date, FORMATS[i]).ok
            /\ \A j \in 1..(i - 1) : ~Strptime(date, FORMATS[j]).ok
    ELSE 0

\* parsed_date.strftime("%d/%m/%Y")
Strftime(day, month, year) == DmyDate(day, month, year)

(***************************************************************************)
(* infer_and_fix_years.  prev_month = 0 is None.                           *)
(***************************************************************************)
RolloverOnAnyDecrease(prev_month, month) ==
    prev_month # 0 /\ month < prev_month

\* Detect year rollback (Dec -> Jan means new year)
Rollover(prev_month, month) ==
    prev_month # 0 /\ month < prev_month /\ prev_month >= 11 /\ month <= 2

\* one turn of the loop over transactions: the transaction as rewritten and
\* the two locals after it
FixOne(t, assigned_year, prev_month) ==
    LET k == FirstFormat(t.date)
        p == Strptime(t.date, FORMATS[k])
        y == IF Rollover(prev_month, p.month)
             THEN assigned_year + 1 ELSE assigned_year
    IN  IF k = 0
        THEN [t |-> t, assigned_year |-> assigned_year,
              prev_month |-> prev_month]
        ELSE IF k \in NoYearFormats
        THEN [t |-> [t EXCEPT !.date = Strftime(p.day, p.month, y)],
              assigned_year |-> y, prev_month |-> p.month]
        ELSE [t |-> [t EXCEPT !.date = Strftime(p.day, p.month, p.year)],
              assigned_year |-> p.year, prev_month |-> p.month]

RECURSIVE FixFrom(_, _, _)
FixFrom(transactions, assigned_year, prev_month) ==
    IF transactions = << >> THEN << >>
    ELSE LET r == FixOne(Head(transactions), assigned_year, prev_month)
         IN  << r.t >> \o FixFrom(Tail(transactions), r.assigned_year,
                                  r.prev_month)

infer_and_fix_years(transactions, current_year) ==
    IF transactions = << >> THEN transactions
    ELSE FixFrom(transactions, current_year, 0)

(***************************************************************************)
(* maybank.py.  A line of text is what the patterns match of it: a line    *)
(* of kind "mtasb" matches PATTERN_MAYBANK_MTASB with the groups it        *)
(* carries, a line of kind "mbb" matches PATTERN_MAYBANK_MBB, a line of    *)
(* kind "hdr" matches STATEMENT_YEAR_PATTERN with group yy.  A recognizer  *)
(* returns << >> for None and << record >> for a record.                   *)
(***************************************************************************)
DEFAULT_YEAR == 2025

RECURSIVE extract_statement_year(_, _)
extract_statement_year(txt, fallback_year) ==
    IF txt = << >> THEN fallback_year
    ELSE IF Head(txt).kind = "hdr" THEN 2000 + Head(txt).yy
    ELSE extract_statement_year(Tail(txt), fallback_year)

CreditOf(amount, sign) == IF sign = "+" THEN amount ELSE 0
DebitOfAnySign(amount, sign) == amount
DebitOf(amount, sign) == IF sign = "-" THEN amount ELSE 0

parse_line_maybank_mtasb(line, pg, year) ==
    IF line.kind # "mtasb" THEN << >>
    ELSE LET amount == ParseAmount(line.amount_raw)
             balance == ParseAmount(line.balance_raw)
         IN  << [date |-> IsoDate(year, line.month, line.day),
                 description |-> line.desc,
                 debit |-> DebitOf(amount, line.sign),
                 credit |-> CreditOf(amount, line.sign),
                 balance |-> << balance >>,
                 page |-> pg] >>

parse_line_maybank_mbb(line, pg) ==
    IF line.kind # "mbb" THEN << >>
    ELSE LET amount == ParseAmount(line.amount_raw)
             balance == ParseAmount(line.balance_raw)
         IN  << [date |-> IsoDate(line.year, MonthOfAbbr(line.mon_abbr),
                                  line.day),
                 description |-> line.desc,
                 debit |-> DebitOf(amount, line.sign),
                 credit |-> CreditOf(amount, line.sign),
                 balance |-> << balance >>,
                 page |-> pg] >>

\* the loop over text.splitlines() with the year of the page
RECURSIVE MaybankLines(_, _, _)
MaybankLines(txt, pg, year) ==
    IF txt = << >> THEN << >>
    ELSE LET a == parse_line_maybank_mtasb(Head(txt), pg, year)
             b == parse_line_maybank_mbb(Head(txt), pg)
         IN  (IF a # << >> THEN a ELSE b) \o MaybankLines(Tail(txt), pg, year)

parse_transactions_maybank(txt, pg, default_year) ==
    MaybankLines(txt, pg, extract_statement_year(txt, default_year))

(***************************************************************************)
(* public_bank.py, rhb.py, cimb.py are imported by app.py and are not part *)
(* of the sources at hand.  Each is modelled as the specification's        *)
(* recognizer: a line (CIMB: a table row of the page) of its own kind      *)
(* carries the fields of the record it yields, every other line yields     *)
(* nothing.  Their date strings are in the layouts infer_and_fix_years     *)
(* reads.                                                                  *)
(***************************************************************************)
RECURSIVE OtherBankLines(_, _, _)
OtherBankLines(txt, pg, kind) ==
    IF txt = << >> THEN << >>
    ELSE (IF Head(txt).kind = kind
          THEN << [date |-> Head(txt).date, description |-> Head(txt).desc,
                   debit |-> Head(txt).debit, credit |-> Head(txt).credit,
                   balance |-> Head(txt).balance, page |-> pg] >>
          ELSE << >>) \o OtherBankLines(Tail(txt), pg, kind)

parse_transactions_pbb(txt, pg) == OtherBankLines(txt, pg, "pbb")
parse_transactions_rhb(txt, pg) == OtherBankLines(txt, pg, "rhb")
parse_transactions_cimb(page_obj, pg, source_file) ==
    OtherBankLines(page_obj, pg, "cimb")

\* "CIMB" in text or "cimb" in text.lower()
HasCimbKeyword(txt) == \E i \in 1..Len(txt) : txt[i].kind = "kw"

\* t["source_file"] = uploaded_file.name, for every t of the page's list
RECURSIVE Stamp(_, _)
Stamp(txs, name) ==
    IF txs = << >> THEN << >>
    ELSE << [date |-> Head(txs).date, description |-> Head(txs).description,
             debit |-> Head(txs).debit, credit |-> Head(txs).credit,
             balance |-> Head(txs).balance, page |-> Head(txs).page,
             source_file |-> name] >> \o Stamp(Tail(txs), name)

(***************************************************************************)
(* Monthly statistics (app.py:222-249).                                    *)
(***************************************************************************)
DigitChar(n) ==
    CASE n = 0 -> "0" [] n = 1 -> "1" [] n = 2 -> "2" [] n = 3 -> "3"
      [] n = 4 -> "4" [] n = 5 -> "5" [] n = 6 -> "6" [] n = 7 -> "7"
      [] n = 8 -> "8" [] n = 9 -> "9"

\* the digits of n grouped in threes by commas
RECURSIVE Grouped(_)
Grouped(n) ==
    IF n < 10 THEN << DigitChar(n) >>
    ELSE IF n < 100 THEN << DigitChar(n \div 10), DigitChar(n % 10) >>
    ELSE IF n < 1000
    THEN << DigitChar(n \div 100), DigitChar((n \div 10) % 10),
            DigitChar(n % 10) >>
    ELSE Grouped(n \div 1000) \o
         << ",", DigitChar((n \div 100) % 10), DigitChar((n \div 10) % 10),
            DigitChar(n % 10) >>

\* f"{x:,.2f}" of an amount in cents
FormatAmount(cents) ==
    Grouped(cents \div 100) \o
    << ".", DigitChar((cents \div 10) % 10), DigitChar(cents % 10) >>

NA == << "N", "/", "A" >>

\* pd.to_datetime(df['date'], format='%d/%m/%Y', errors='coerce')
DateParsed(t) == Strptime(t.date, FORMATS[1])

\* .dt.to_period('M'), as 12 * year + month - 1
YearMonth(t) == 12 * DateParsed(t).year + DateParsed(t).month - 1

RECURSIVE SumOf(_, _, _)
SumOf(df, key, field) ==
    IF df = << >> THEN 0
    ELSE (IF DateParsed(Head(df)).ok /\ YearMonth(Head(df)) = key
          THEN (IF field = "debit" THEN Head(df).debit ELSE Head(df).credit)
          ELSE 0) + SumOf(Tail(df), key, field)

\* the balances of a group that are numbers (balance_num is NaN otherwise)
GroupBalances(df, key) ==
    { df[i].balance[1] : i \in { j \in 1..Len(df) :
          /\ DateParsed(df[j]).ok
          /\ YearMonth(df[j]) = key
          /\ df[j].balance # << >> } }

MinOf(S) == CHOOSE x \in S : \A y \in S : x <= y
MaxOf(S) == CHOOSE x \in S : \A y \in S : x >= y

LowestBalance(df, key) ==
    IF GroupBalances(df, key) = {} THEN NA
    ELSE FormatAmount(MinOf(GroupBalances(df, key)))

HighestBalance(df, key) ==
    IF GroupBalances(df, key) = {} THEN NA
    ELSE FormatAmount(MaxOf(GroupBalances(df, key)))

\* groupby('year_month'): the keys in ascending order, NaT dropped
RECURSIVE Ascending(_)
Ascending(S) ==
    IF S = {} THEN << >>
    ELSE << MinOf(S) >> \o Ascending(S \ {MinOf(S)})

GroupKeys(df) ==
    { YearMonth(df[i]) : i \in { j \in 1..Len(df) : DateParsed(df[j]).ok } }

StatsRow(df, key) ==
    [Month |-> << key \div 12, (key % 12) + 1 >>,
     TotalDebit |-> FormatAmount(SumOf(df, key, "debit")),
     TotalCredit |-> FormatAmount(SumOf(df, key, "credit")),
     LowestBalance |-> LowestBalance(df, key),
     HighestBalance |-> HighestBalance(df, key)]

MonthlyStats(df) ==
    LET keys == Ascending(GroupKeys(df))
    IN  [i \in 1..Len(keys) |-> StatsRow(df, keys[i])]

(***************************************************************************)
(* Inputs.                                                                 *)
(***************************************************************************)
Chars5000 == << "5", ",", "0", "0", "0", ".", "0", "0" >>
Chars78 == << "7", "8", ".", "0", "0" >>
CharsZero == << "0", ".", "0", "0" >>
CharsCommaZero == << ",", ".", "0", "0" >>
Chars9318 == << "9", ",", "3", "1", "8", ".", "3", "3" >>

Hints == {"none", "maybank", "pbb", "rhb", "cimb"}

\* the years datetime.now() may fall in
ClockYears == {2024, 2026}

SeqsUpTo(S, n) == UNION { [1..k -> S] : k \in 0..n }

HeaderLine == [kind |-> "hdr", yy |-> 24]
KeywordLine == [kind |-> "kw"]
NoiseLine == [kind |-> "noise"]

MtasbLineOf(day, month, amount_raw, sign) ==
    [kind |-> "mtasb", day |-> day, month |-> month,
     desc |-> "TRANSFER TO A/C", amount_raw |-> amount_raw, sign |-> sign,
     balance_raw |-> Chars9318]

MbbLineOf(day, mon_abbr, year, amount_raw, sign) ==
    [kind |-> "mbb", day |-> day, mon_abbr |-> mon_abbr, year |-> year,
     desc |-> "CMS - DR CORP CHG", amount_raw |-> amount_raw, sign |-> sign,
     balance_raw |-> Chars9318]

OtherLineOf(kind, date, balance) ==
    [kind |-> kind, date |-> date, desc |-> "DEPOSIT", debit |-> 0,
     credit |-> 7800, balance |-> balance]

\* the lines of the statements of a batch
BatchLines ==
    { HeaderLine,
      MtasbLineOf(1, 6, Chars5000, "+"),
      OtherLineOf("pbb", DmDate(31, 12), << 10000 >>),
      OtherLineOf("pbb", DmDate(5, 1), << 8000 >>) }

\* the lines of a page that several recognizers read
DispatchLines ==
    { KeywordLine, NoiseLine,
      MtasbLineOf(1, 6, Chars5000, "+"),
      OtherLineOf("cimb", DmyDate(2, 6, 2025), << 10000 >>),
      OtherLineOf("pbb", DmDate(3, 6), << 8000 >>),
      OtherLineOf("rhb", DmDate(4, 6), << 5000 >>) }

\* lines the two Maybank patterns match
MtasbLines ==
    { MtasbLineOf(d, m, a, s) :
        d \in {1, 31, 99}, m \in {2, 6, 13},
        a \in {Chars5000, Chars78, CharsZero, CharsCommaZero},
        s \in {"+", "-"} }

MbbLines ==
    { MbbLineOf(d, w, 2025, a, s) :
        d \in {1, 31},
        w \in { <<"A","p","r">>, <<"D","E","C">>, <<"j","a","n">>,
                <<"X","y","z">> },
        a \in {Chars78, CharsZero},
        s \in {"+", "-"} }

\* the year of the page as parse_transactions_maybank passes it on
PageYears == {2024, DEFAULT_YEAR}

(***************************************************************************)
(* The script.                                                             *)
(***************************************************************************)
LoopVarsUnchanged == UNCHANGED << bank_hint, raw_tx, now_year, monthly_stats >>

\* except Exception as e: st.error(...), and on to the next uploaded_file
ReportErrorAbortsBatch(name) ==
    /\ errors' = Append(errors, [file |-> name, kept |-> all_tx])
    /\ pc' = "fix"
    /\ UNCHANGED << all_tx, origin >>

ReportError(name) ==
    /\ errors' = Append(errors, [file |-> name, kept |-> all_tx])
    /\ pc' = "files"
    /\ UNCHANGED << all_tx, origin >>

\* for uploaded_file in uploaded_files: with pdfplumber.open(...) as pdf
NextFile ==
    /\ pc = "files"
    /\ files_left > 0
    /\ file_num' = file_num + 1
    /\ files_left' = files_left - 1
    /\ visited' = visited \cup {file_num + 1}
    /\ header_seen' = 0
    /\ page_num' = 0
    /\ \/ /\ \E n \in 0..pages_left :
               /\ pdf_pages' = n
               /\ pages_left' = pages_left - n
          /\ pc' = "pages"
          /\ UNCHANGED << all_tx, origin, errors >>
       \/ \* pdfplumber.open raises
          /\ ReportError(file_num + 1)
          /\ UNCHANGED << pdf_pages, pages_left >>
    /\ UNCHANGED << lines_left, text, called, tx >>
    /\ LoopVarsUnchanged

\* the page's recognizer when the user chose a bank (app.py:143-153)
HintedParse(hint, txt, pg, name) ==
    CASE hint = "maybank" -> parse_transactions_maybank(txt, pg, DEFAULT_YEAR)
      [] hint = "pbb" -> parse_transactions_pbb(txt, pg)
      [] hint = "rhb" -> parse_transactions_rhb(txt, pg)
      [] hint = "cimb" -> parse_transactions_cimb(txt, pg, name)

\* for page_num, page in enumerate(pdf.pages, start=1), to the dispatch
NextPage(L) ==
    /\ pc = "pages"
    /\ page_num < pdf_pages
    /\ page_num' = page_num + 1
    /\ \/ /\ \E t \in SeqsUpTo(L, lines_left) :
               /\ text' = t
               /\ lines_left' = lines_left - Len(t)
               /\ IF bank_hint = "none"
                  THEN /\ tx' = << >>
                       /\ called' = << >>
                       /\ pc' = "auto_cimb"
                  ELSE /\ tx' = HintedParse(bank_hint, t, page_num + 1,
                                            file_num)
                       /\ called' = << bank_hint >>
                       /\ pc' = "extend"
          /\ UNCHANGED << all_tx, origin, errors >>
       \/ \* page.extract_text() raises
          /\ ReportError(file_num)
          /\ UNCHANGED << text, lines_left, tx, called >>
    /\ UNCHANGED << files_left, pages_left, pdf_pages, file_num, header_seen,
                    visited >>
    /\ LoopVarsUnchanged

AutoVarsUnchanged ==
    UNCHANGED << bank_hint, files_left, pages_left, pdf_pages, lines_left, file_num,
                 page_num, text, all_tx, errors, header_seen, origin, visited,
                 raw_tx, now_year, monthly_stats >>

\* auto_detect_and_parse, one recognizer after the other
TryCimbThenGoesOn ==
    /\ pc = "auto_cimb"
    /\ IF HasCimbKeyword(text)
       THEN /\ called' = Append(called, "cimb")
            /\ tx' = parse_transactions_cimb(text, page_num, file_num)
       ELSE UNCHANGED << called, tx >>
    /\ pc' = "auto_maybank"
    /\ AutoVarsUnchanged

TryCimb ==
    /\ pc = "auto_cimb"
    /\ IF HasCimbKeyword(text)
       THEN /\ called' = Append(called, "cimb")
            /\ tx' = parse_transactions_cimb(text, page_num, file_num)
            /\ pc' = IF tx' # << >> THEN "extend" ELSE "auto_maybank"
       ELSE /\ pc' = "auto_maybank"
            /\ UNCHANGED << called, tx >>
    /\ AutoVarsUnchanged

TryMaybank ==
    /\ pc = "auto_maybank"
    /\ called' = Append(called, "maybank")
    /\ tx' = parse_transactions_maybank(text, page_num, DEFAULT_YEAR)
    /\ pc' = IF tx' # << >> THEN "extend" ELSE "auto_pbb"
    /\ AutoVarsUnchanged

TryPbb ==
    /\ pc = "auto_pbb"
    /\ called' = Append(called, "pbb")
    /\ tx' = parse_transactions_pbb(text, page_num)
    /\ pc' = IF tx' # << >> THEN "extend" ELSE "auto_rhb"
    /\ AutoVarsUnchanged

TryRhb ==
    /\ pc = "auto_rhb"
    /\ called' = Append(called, "rhb")
    /\ tx' = parse_transactions_rhb(text, page_num)
    /\ pc' = "extend"
    /\ AutoVarsUnchanged

\* the lines of the page the recognizer made its records of, in order
RECURSIVE SourceLines(_, _)
SourceLines(txt, recognizer) ==
    IF txt = << >> THEN << >>
    ELSE (IF \/ recognizer = "maybank" /\ Head(txt).kind \in {"mtasb", "mbb"}
             \/ recognizer # "maybank" /\ Head(txt).kind = recognizer
          THEN << Head(txt) >> ELSE << >>) \o SourceLines(Tail(txt), recognizer)

\* if tx: stamp source_file, all_tx.extend(tx)
ExtendAllTx ==
    /\ pc = "extend"
    /\ all_tx' = all_tx \o Stamp(tx, file_num)
    /\ origin' = origin \o
          [i \in 1..Len(tx) |->
              [recognizer |-> called[Len(called)],
               line |-> SourceLines(text, called[Len(called)])[i],
               declared |-> extract_statement_year(text, 0),
               earlier |-> header_seen]]
    /\ header_seen' = IF header_seen = 0
                      THEN extract_statement_year(text, 0) ELSE header_seen
    /\ pc' = "pages"
    /\ UNCHANGED << files_left, pages_left, pdf_pages, lines_left, file_num, page_num,
                    text, called, tx, errors, visited >>
    /\ LoopVarsUnchanged

EndOfPdf ==
    /\ pc = "pages"
    /\ page_num = pdf_pages
    /\ pc' = "files"
    /\ UNCHANGED << files_left, pages_left, pdf_pages, lines_left, file_num, page_num,
                    text, called, tx, all_tx, errors, header_seen, origin,
                    visited >>
    /\ LoopVarsUnchanged

\* the loop over uploaded_files is over; if uploaded_files: fix the years
EndOfFiles ==
    /\ pc = "files"
    /\ files_left = 0
    /\ pc' = IF file_num = 0 THEN "show" ELSE "fix"
    /\ UNCHANGED << files_left, pages_left, pdf_pages, lines_left, file_num, page_num,
                    text, called, tx, all_tx, errors, header_seen, origin,
                    visited >>
    /\ LoopVarsUnchanged

\* all_tx = infer_and_fix_years(all_tx)
FixYears ==
    /\ pc = "fix"
    /\ \E y \in ClockYears :
          /\ now_year' = y
          /\ all_tx' = infer_and_fix_years(all_tx, y)
    /\ raw_tx' = all_tx
    /\ pc' = "show"
    /\ UNCHANGED << bank_hint, files_left, pages_left, pdf_pages, lines_left, file_num,
                    page_num, text, called, tx, errors, header_seen, origin,
                    visited, monthly_stats >>

\* if all_tx: ... monthly_stats = df.groupby('year_month').agg(...)
MonthlyStatistics ==
    /\ pc = "show"
    /\ monthly_stats' = IF all_tx # << >> THEN MonthlyStats(all_tx)
                        ELSE monthly_stats
    /\ pc' = "done"
    /\ UNCHANGED << bank_hint, files_left, pages_left, pdf_pages, lines_left, file_num,
                    page_num, text, called, tx, all_tx, errors, header_seen,
                    origin, visited, raw_tx, now_year >>

\* before the script starts, whatever the batch
Blank ==
    /\ pdf_pages = 0
    /\ text = << >>
    /\ called = << >>
    /\ tx = << >>
    /\ all_tx = << >>
    /\ errors = << >>
    /\ header_seen = 0
    /\ origin = << >>
    /\ visited = {}
    /\ raw_tx = << >>
    /\ now_year = 0
    /\ monthly_stats = << >>

Init ==
    /\ pc = "files"
    /\ bank_hint \in Hints
    /\ files_left \in 0..MaxFiles
    /\ pages_left = MaxPages
    /\ lines_left = MaxLines
    /\ file_num = 0
    /\ page_num = 0
    /\ Blank

Next ==
    \/ NextFile
    \/ NextPage(BatchLines)
    \/ TryCimb
    \/ TryMaybank
    \/ TryPbb
    \/ TryRhb
    \/ ExtendAllTx
    \/ EndOfPdf
    \/ EndOfFiles
    \/ FixYears
    \/ MonthlyStatistics

Spec == Init /\ [][Next]_vars

(***************************************************************************)
(* Failure isolation: the same script on batches of short statements.      *)
(***************************************************************************)
ShortLines ==
    { MtasbLineOf(1, 6, Chars5000, "+"),
      OtherLineOf("pbb", DmDate(5, 1), << 8000 >>) }

NextIsolation ==
    \/ NextFile
    \/ NextPage(ShortLines)
    \/ TryCimb
    \/ TryMaybank
    \/ TryPbb
    \/ TryRhb
    \/ ExtendAllTx
    \/ EndOfPdf
    \/ EndOfFiles
    \/ FixYears
    \/ MonthlyStatistics

SpecIsolation == Init /\ [][NextIsolation]_vars

(***************************************************************************)
(* Auto-detect: the same script on one page that several recognizers read. *)
(***************************************************************************)
InitDispatch ==
    /\ pc = "files"
    /\ bank_hint = "none"
    /\ files_left = 1
    /\ pages_left = 1
    /\ lines_left = MaxPageLines
    /\ file_num = 0
    /\ page_num = 0
    /\ Blank

NextDispatch ==
    \/ NextFile
    \/ NextPage(DispatchLines)
    \/ TryCimb
    \/ TryMaybank
    \/ TryPbb
    \/ TryRhb
    \/ ExtendAllTx
    \/ EndOfPdf
    \/ EndOfFiles
    \/ FixYears
    \/ MonthlyStatistics

SpecDispatch == InitDispatch /\ [][NextDispatch]_vars

(***************************************************************************)
(* The two Maybank line recognizers on the lines their patterns match.     *)
(***************************************************************************)
RecognizerVarsUnchanged ==
    UNCHANGED << pc, bank_hint, files_left, pages_left, pdf_pages, lines_left,
                 file_num, page_num, all_tx, errors, header_seen, origin,
                 visited, raw_tx, monthly_stats >>

MtasbLine ==
    /\ pc = "line"
    /\ \E l \in MtasbLines \cup MbbLines \cup {NoiseLine}, y \in PageYears :
          /\ text' = << l >>
          /\ tx' = parse_line_maybank_mtasb(l, page_num, y)
    /\ called' = << "mtasb" >>
    /\ UNCHANGED now_year
    /\ RecognizerVarsUnchanged

MbbLine ==
    /\ pc = "line"
    /\ \E l \in MbbLines \cup MtasbLines \cup {NoiseLine} :
          /\ text' = << l >>
          /\ tx' = parse_line_maybank_mbb(l, page_num)
    /\ called' = << "mbb" >>
    /\ UNCHANGED now_year
    /\ RecognizerVarsUnchanged

InitRecognizer ==
    /\ pc = "line"
    /\ bank_hint = "maybank"
    /\ files_left = 0
    /\ pages_left = 0
    /\ lines_left = 0
    /\ file_num = 1
    /\ page_num = 1
    /\ Blank

NextRecognizer == MtasbLine \/ MbbLine

SpecRecognizer == InitRecognizer /\ [][NextRecognizer]_vars

(***************************************************************************)
(* infer_and_fix_years and the monthly statistics on transaction lists.    *)
(***************************************************************************)
TxOf(date, debit, credit, balance) ==
    [date |-> date, description |-> "DEPOSIT", debit |-> debit,
     credit |-> credit, balance |-> balance, page |-> 1, source_file |-> 1]

DatedInputs ==
    { DmDate(5, 11), DmDate(5, 12), DmDate(5, 1), DmDate(5, 2), DmDate(5, 6),
      DmDate(29, 2), DmyDate(5, 12, 2023) }

RowInputs ==
    { TxOf(d, a[1], a[2], a[3]) :
        d \in { DmyDate(5, 1, 2025), DmyDate(20, 1, 2025),
                DmyDate(1, 2, 2025) },
        a \in { << 0, 2000, << 10000 >> >>, << 2000, 0, << 8000 >> >>,
                << 3000, 0, << 5000 >> >>, << 100, 0, << >> >> } }

ListVarsUnchanged ==
    UNCHANGED << pc, bank_hint, files_left, pages_left, pdf_pages, lines_left,
                 file_num, page_num, text, called, tx, errors, header_seen,
                 origin, visited, raw_tx, now_year, monthly_stats >>

DrawDated ==
    /\ pc = "collect"
    /\ Len(all_tx) < MaxTx
    /\ \E d \in DatedInputs : all_tx' = Append(all_tx, TxOf(d, 0, 7800, << >>))
    /\ ListVarsUnchanged

DrawRow ==
    /\ pc = "collect"
    /\ Len(all_tx) < MaxRows
    /\ \E t \in RowInputs : all_tx' = Append(all_tx, t)
    /\ ListVarsUnchanged

EndCollect ==
    /\ pc = "collect"
    /\ pc' = "fix"
    /\ UNCHANGED << bank_hint, files_left, pages_left, pdf_pages, lines_left,
                    file_num, page_num, text, called, tx, all_tx, errors,
                    header_seen, origin, visited, raw_tx, now_year,
                    monthly_stats >>

InitList ==
    /\ pc = "collect"
    /\ bank_hint = "none"
    /\ files_left = 0
    /\ pages_left = 0
    /\ lines_left = 0
    /\ file_num = 1
    /\ page_num = 1
    /\ Blank

NextYears == DrawDated \/ EndCollect \/ FixYears \/ MonthlyStatistics

SpecYears == InitList /\ [][NextYears]_vars

NextStats == DrawRow \/ EndCollect \/ FixYears \/ MonthlyStatistics

SpecStats == InitList /\ [][NextStats]_vars

(***************************************************************************)
(* Properties.                                                             *)
(***************************************************************************)
\* what each amount of the input lines is worth, in cents
ExpectedCents(amount_raw) ==
    CASE amount_raw = Chars5000 -> 500000
      [] amount_raw = Chars78 -> 7800
      [] amount_raw = CharsZero -> 0
      [] amount_raw = CharsCommaZero -> 0
      [] amount_raw = Chars9318 -> 931833

\* the line a recognizer was given matched its pattern
Matched ==
    /\ text # << >>
    /\ \/ called = << "mtasb" >> /\ text[1].kind = "mtasb"
       \/ called = << "mbb" >> /\ text[1].kind = "mbb"

\* C5 as claimed: every record of the MTASB or MBB recognizer has exactly
\* one of debit and credit non-zero, whatever amount the pattern accepted.
C5_ExactlyOneNonZero ==
    Matched => \A i \in 1..Len(tx) : (tx[i].debit # 0) # (tx[i].credit # 0)

\* C5 as amended: debit and credit are never negative, "+" puts the amount
\* in credit and leaves debit 0, "-" puts it in debit and leaves credit 0,
\* so that exactly one of the two is non-zero when the amount is not zero
\* and both are zero when it is zero (0.00 is accepted by the pattern).
C5_SignDecidesColumn ==
    Matched =>
        /\ Len(tx) = 1
        /\ tx[1].debit >= 0
        /\ tx[1].credit >= 0
        /\ text[1].sign = "+" =>
              /\ tx[1].credit = ExpectedCents(text[1].amount_raw)
              /\ tx[1].debit = 0
        /\ text[1].sign = "-" =>
              /\ tx[1].debit = ExpectedCents(text[1].amount_raw)
              /\ tx[1].credit = 0
        /\ ((tx[1].debit # 0) # (tx[1].credit # 0))
              <=> ExpectedCents(text[1].amount_raw) # 0
        /\ tx[1].balance = << ExpectedCents(text[1].balance_raw) >>

\* C5 witness: the MBB recognizer returned a debit of 78.00 for a "-" line
C5_Witness ==
    /\ Matched
    /\ called = << "mbb" >>
    /\ text[1].sign = "-"
    /\ Len(tx) = 1
    /\ tx[1].debit = 7800
    /\ tx[1].credit = 0

\* no year has the day in the month (the month itself may not exist)
NoSuchDay(day, month) ==
    month \notin 1..12 \/ day < 1 \/ day > DaysIn(month, 2024)

\* C6 as claimed: a line that matches the MTASB or MBB pattern and whose
\* month abbreviation is unknown, or whose day and month are no calendar
\* date, yields no record.
C6_FailedNormalizationYieldsNoRecord ==
    /\ (Matched /\ text[1].kind = "mbb" /\ ~KnownMonth(text[1].mon_abbr))
          => tx = << >>
    /\ (Matched /\ text[1].kind = "mbb" /\ KnownMonth(text[1].mon_abbr)
          /\ NoSuchDay(text[1].day, MonthOfAbbr(text[1].mon_abbr)))
          => tx = << >>
    /\ (Matched /\ text[1].kind = "mtasb"
          /\ NoSuchDay(text[1].day, text[1].month))
          => tx = << >>

\* the year and the month a date string shows, in either layout the script
\* leaves in all_tx: year first ("2025-06-01") or year last ("01/06/2025");
\* year 0 when the string shows none
YearOfDate(d) ==
    IF d.parts[1][2] = 4 THEN d.parts[1][1]
    ELSE IF Len(d.parts) = 3 THEN d.parts[3][1]
    ELSE 0

MonthOfDate(d) == d.parts[2][1]

AfterFix == pc \in {"show", "done"} /\ file_num > 0

\* infer_and_fix_years read the date of raw_tx[i] (in any of its formats)
Resolved(i) == FirstFormat(raw_tx[i].date) # 0

\* ... and the date was a day and a month only
DayMonthOnly(i) == Resolved(i) /\ Len(raw_tx[i].date.parts) = 2

\* the last date before i that was read, 0 when there is none
PreviousResolved(i) ==
    IF \E j \in 1..(i - 1) : Resolved(j)
    THEN CHOOSE j \in 1..(i - 1) :
            Resolved(j) /\ \A k \in (j + 1)..(i - 1) : ~Resolved(k)
    ELSE 0

OfFile(txs, f) == SelectSeq(txs, LAMBDA t : t.source_file = f)

\* C2 as claimed: the dates of a file's records are those the file gets
\* when it is processed alone: no year and no month of another file's
\* records enters them.
C2_NoLeakAcrossFiles ==
    AfterFix =>
        \A f \in 1..file_num :
            OfFile(all_tx, f) = infer_and_fix_years(OfFile(raw_tx, f), now_year)

\* C3 as claimed: a day/month-only (MTASB) date on a page that follows a
\* page of the same file declaring a statement year gets that year.
C3_DeclaredYearCached ==
    \A i \in 1..Len(origin) :
        (origin[i].line.kind = "mtasb" /\ origin[i].earlier # 0)
            => YearOfDate(all_tx[i].date) = origin[i].earlier

\* the date of record i was printed as a day and a month only
PrintedDayMonthOnly(i) ==
    \/ origin[i].line.kind = "mtasb"
    \/ /\ origin[i].line.kind \in {"pbb", "rhb", "cimb"}
       /\ Len(origin[i].line.date.parts) = 2

FirstDayMonthOfFile(i) ==
    /\ PrintedDayMonthOnly(i)
    /\ \A j \in 1..(i - 1) :
          all_tx[j].source_file = all_tx[i].source_file
              => ~PrintedDayMonthOnly(j)

\* C4 as claimed: the first day/month-only date of a file gets the year its
\* page declares when it declares one; the Maybank fallback year is used
\* when it declares none.
C4_DeclaredYearFirst ==
    AfterFix =>
        \A i \in 1..Len(origin) :
            FirstDayMonthOfFile(i) =>
                /\ origin[i].declared # 0
                      => YearOfDate(all_tx[i].date) = origin[i].declared
                /\ (origin[i].declared = 0 /\ origin[i].recognizer = "maybank")
                      => YearOfDate(all_tx[i].date) = DEFAULT_YEAR

\* the records of all_tx whose date shows the year and month ym
InMonth(ym) ==
    { i \in 1..Len(all_tx) :
        << YearOfDate(all_tx[i].date), MonthOfDate(all_tx[i].date) >> = ym }

RECURSIVE SumOver(_, _)
SumOver(S, field) ==
    IF S = {} THEN 0
    ELSE LET i == CHOOSE x \in S : TRUE
         IN  (IF field = "debit" THEN all_tx[i].debit ELSE all_tx[i].credit)
             + SumOver(S \ {i}, field)

StatsShown == pc = "done" /\ all_tx # << >>

\* C7 as claimed: every record of the final collection, whichever
\* recognizer made it, has a row for the year and month of its date, that
\* row's totals include its debit and credit and that row's balance range
\* its balance; there is one row for each year and month of the collection.
C7_EveryRecordInSummary ==
    StatsShown =>
        /\ \A i \in 1..Len(all_tx) :
              \E r \in 1..Len(monthly_stats) :
                 LET row == monthly_stats[r]
                 IN  /\ i \in InMonth(row.Month)
                     /\ ParseAmount(row.TotalDebit)
                           = SumOver(InMonth(row.Month), "debit")
                     /\ ParseAmount(row.TotalCredit)
                           = SumOver(InMonth(row.Month), "credit")
                     /\ all_tx[i].balance # << >> =>
                           /\ ParseAmount(row.LowestBalance)
                                 <= all_tx[i].balance[1]
                           /\ all_tx[i].balance[1]
                                 <= ParseAmount(row.HighestBalance)
        /\ \A r1, r2 \in 1..Len(monthly_stats) :
              monthly_stats[r1].Month = monthly_stats[r2].Month => r1 = r2

\* the balances the records of a month carry
BalancesIn(ym) ==
    { all_tx[i].balance[1] : i \in { j \in InMonth(ym) : all_tx[j].balance # << >> } }

\* the last record of a month in input order
LastIn(ym) == CHOOSE i \in InMonth(ym) : \A j \in InMonth(ym) : j <= i

\* C8 as claimed: each row reports the lowest and the highest balance of
\* its month, the number of its records, and as ending balance the balance
\* of the record of the month that is last in input order.
C8_RowHasEndingBalanceAndCount ==
    StatsShown =>
        \A r \in 1..Len(monthly_stats) :
            LET row == monthly_stats[r]
            IN  /\ BalancesIn(row.Month) # {} =>
                      /\ \A b \in BalancesIn(row.Month) :
                            ParseAmount(row.LowestBalance) <= b
                      /\ \A b \in BalancesIn(row.Month) :
                            b <= ParseAmount(row.HighestBalance)
                /\ "TransactionCount" \in DOMAIN row
                /\ row.TransactionCount = Cardinality(InMonth(row.Month))
                /\ "EndingBalance" \in DOMAIN row
                /\ row.EndingBalance = all_tx[LastIn(row.Month)].balance

\* What the rows do report: there is one row for each year and month of the
\* records read as dd/mm/YYYY; a row reports the month's total debit and
\* total credit and the lowest and the highest balance of the month (N/A
\* when no record of the month carries a balance); a row has these five
\* columns only.
RowsReportTotalsAndExtrema ==
    StatsShown =>
        /\ \A i \in 1..Len(all_tx) :
              \E r \in 1..Len(monthly_stats) : i \in InMonth(monthly_stats[r].Month)
        /\ \A r \in 1..Len(monthly_stats) :
              LET row == monthly_stats[r]
                  bs == BalancesIn(row.Month)
              IN  /\ DOMAIN row = {"Month", "TotalDebit", "TotalCredit",
                                   "LowestBalance", "HighestBalance"}
                  /\ InMonth(row.Month) # {}
                  /\ ParseAmount(row.TotalDebit) = SumOver(InMonth(row.Month), "debit")
                  /\ ParseAmount(row.TotalCredit) = SumOver(InMonth(row.Month), "credit")
                  /\ IF bs = {}
                     THEN row.LowestBalance = NA /\ row.HighestBalance = NA
                     ELSE /\ ParseAmount(row.LowestBalance) \in bs
                          /\ ParseAmount(row.HighestBalance) \in bs
                          /\ \A b \in bs : ParseAmount(row.LowestBalance) <= b
                          /\ \A b \in bs : b <= ParseAmount(row.HighestBalance)

\* the recognizers of auto-detect in their order, for the current page
Priority ==
    (IF \E i \in 1..Len(text) : text[i].kind = "kw" THEN << "cimb" >> ELSE << >>)
    \o << "maybank", "pbb", "rhb" >>

\* the lines of the current page that a recognizer makes records of
ReadBy(recognizer) ==
    { i \in 1..Len(text) :
        \/ recognizer = "maybank" /\ text[i].kind \in {"mtasb", "mbb"}
        \/ recognizer # "maybank" /\ text[i].kind = recognizer }

\* C9: in auto-detect mode, when a page's result is handed back, the
\* recognizers invoked are the first k of CIMB (only with the CIMB keyword
\* in the text), Maybank, Public Bank, RHB; the k-1 before the last read no
\* line of the page; the last one is the first that reads a line, or RHB;
\* the result has one record for each line the last one reads and nothing
\* else (none at all when no recognizer reads a line).
C9_FirstRecognizerWins ==
    (pc = "extend" /\ bank_hint = "none") =>
        \E k \in 1..Len(Priority) :
            /\ called = SubSeq(Priority, 1, k)
            /\ \A j \in 1..(k - 1) : ReadBy(Priority[j]) = {}
            /\ k < Len(Priority) => ReadBy(Priority[k]) # {}
            /\ Len(tx) = Cardinality(ReadBy(Priority[k]))
            /\ \A n \in 1..Len(tx) :
                  \E i \in ReadBy(Priority[k]) :
                      /\ tx[n].description = text[i].desc
                      /\ Cardinality({ j \in ReadBy(Priority[k]) : j < i }) = n - 1

\* C9 witness: a page with the CIMB keyword, a CIMB row and a Maybank line
\* gave the CIMB record only, and no other recognizer was invoked
C9_Witness ==
    /\ pc = "extend"
    /\ bank_hint = "none"
    /\ ReadBy("cimb") # {}
    /\ ReadBy("maybank") # {}
    /\ called = << "cimb" >>
    /\ Len(tx) = 1
    /\ tx[1].date = DmyDate(2, 6, 2025)

IsPrefix(a, b) == Len(a) <= Len(b) /\ SubSeq(b, 1, Len(a)) = a

\* all_tx as the loop over the files left it
Accumulated == IF pc \in {"show", "done"} /\ file_num > 0 THEN raw_tx ELSE all_tx

\* C10: an error is reported for the file it happened in, once; the loop
\* goes on: when the script is past the loop, every uploaded file has been
\* entered; the records accumulated when an error happened stay the first
\* records of the output, and infer_and_fix_years changes no record but in
\* its date.
C10_ErrorsAreIsolated ==
    /\ \A e \in 1..Len(errors) :
          /\ errors[e].file \in visited
          /\ \A d \in 1..Len(errors) : errors[d].file = errors[e].file => d = e
          /\ IsPrefix(errors[e].kept, Accumulated)
    /\ visited = 1..file_num
    /\ pc \in {"fix", "show", "done"} => files_left = 0
    /\ Len(all_tx) = Len(Accumulated)
    /\ \A i \in 1..Len(all_tx) :
          [all_tx[i] EXCEPT !.date = 0] = [Accumulated[i] EXCEPT !.date = 0]

\* C10 witness: the second of three files failed after a record of the
\* first, and the output holds that record and then a record of the third
C10_Witness ==
    /\ pc = "done"
    /\ Len(errors) = 1
    /\ errors[1].file = 2
    /\ Len(errors[1].kept) = 1
    /\ Len(all_tx) = 2
    /\ all_tx[1].source_file = 1
    /\ all_tx[2].source_file = 3

====
